---- MODULE Spec2Model ----
(***************************************************************************)
(* Model of tools/convert_flexible_list.cpp: a one-shot tool that reads a  *)
(* manifest of (path, label) pairs and writes one key/value record per     *)
(* entry into a leveldb or lmdb database, committing every 1000 records    *)
(* and once more for a trailing partial batch.                             *)
(*                                                                         *)
(* Strings are TLA+ strings; TLC evaluates Len, \o and SubSeq on them.     *)
(***************************************************************************)
EXTENDS Integers, Sequences, FiniteSets, TLC

VARIABLES
    pc,            \* position in main()
    argc,          \* argument count left by ParseCommandLineFlags
    FLAGS_shuffle, \* --shuffle
    db_backend,    \* --backend
    listfile,      \* the manifest file named by argv[1] (see FileTokens)
    lines,         \* std::vector<std::pair<string,int>> lines
    dest0,         \* what was at DB_PATH when the process started
    dest,          \* what is at DB_PATH now: "absent", "dir" or "db"
    disk,          \* durable contents of the database at DB_PATH
    db,            \* leveldb::DB* db: "null", "open" or "deleted"
    batch,         \* operations staged in the current leveldb::WriteBatch
    live_batches,  \* WriteBatch objects allocated and not deleted
    mdb_env,       \* MDB_env: "none", "created", "open" or "closed"
    mdb_txn,       \* operations staged in the current lmdb transaction
    live_txns,     \* lmdb transactions begun and neither committed nor aborted
    count,         \* int count
    line_id,       \* int line_id
    exit_code,     \* "running", "0", "1" or "SIGABRT" (abort() of a failed CHECK)
    puts,          \* history: every record handed to a put, in order
    ncommits,      \* history: calls of db->Write / mdb_txn_commit
    nops,          \* history: backend operations invoked
    failed         \* history: some backend operation reported failure

vars == <<pc, argc, FLAGS_shuffle, db_backend, listfile, lines, dest0, dest,
          disk, db, batch, live_batches, mdb_env, mdb_txn, live_txns, count,
          line_id, exit_code, puts, ncommits, nops, failed>>

(***************************************************************************)
(* Program constants                                                       *)
(***************************************************************************)
kMaxKeyLength == 256
kMaxValLength == 256
kBatchSize == 1000
kStripLength == 4
kKeyDigits == 8
kValDigits == 4
\* size_t is 64 bits wide and TLC's integers are 32 bits wide: a wrapped
\* size_t difference is represented by the largest integer TLC has, which is
\* all that substr's clamp to the string's length looks at.
kSizeWrapped == 2147483647

(***************************************************************************)
(* Bounds of the model                                                     *)
(***************************************************************************)
MaxSmallLines == 2   \* small manifests: every sequence of at most this many lines
Extra == 1           \* large manifests: lines beyond the last full batch

Min(a, b) == IF a < b THEN a ELSE b

(***************************************************************************)
(* printf-style formatting                                                 *)
(***************************************************************************)
Digit(d) == SubSeq("0123456789", d + 1, d + 1)

RECURSIVE Dec(_)
Dec(n) == IF n < 10 THEN Digit(n) ELSE Dec(n \div 10) \o Digit(n % 10)

RECURSIVE ZeroPad(_, _)
ZeroPad(s, w) == IF Len(s) >= w THEN s ELSE ZeroPad("0" \o s, w)

\* the decimal digits of -n for n < 0 (-n itself may be outside int)
DecOfNegative(n) ==
    LET last == (10 - (n % 10)) % 10
        rest == 0 - ((n + last) \div 10)
    IN  IF rest = 0 THEN Digit(last) ELSE Dec(rest) \o Digit(last)

\* "%0<w>d": the sign counts towards the width, zeros follow the sign.
FormatD(n, w) ==
    IF n < 0 THEN "-" \o ZeroPad(DecOfNegative(n), w - 1) ELSE ZeroPad(Dec(n), w)

\* snprintf(buf, size, ...) keeps at most size - 1 characters.
Snprintf(size, s) == IF Len(s) > size - 1 THEN SubSeq(s, 1, size - 1) ELSE s

SizeSubClamped(a, b) == IF a >= b THEN a - b ELSE 0

\* a - b on size_t operands
SizeSub(a, b) == IF a >= b THEN a - b ELSE kSizeWrapped

\* std::string::substr(0, n)
Substr0(s, n) == SubSeq(s, 1, Min(n, Len(s)))

FileNameBaseStrip3(file_name) == Substr0(file_name, SizeSub(Len(file_name), 3))

FileNameBase(file_name) == Substr0(file_name, SizeSub(Len(file_name), kStripLength))

MakeKeyIdLast(id, file_name) ==
    Snprintf(kMaxKeyLength, FileNameBase(file_name) \o "_" \o FormatD(id, kKeyDigits))

MakeKey(id, file_name) ==
    Snprintf(kMaxKeyLength, FormatD(id, kKeyDigits) \o "_" \o FileNameBase(file_name))

MakeVal(label) == Snprintf(kMaxValLength, FormatD(label, kValDigits))

(***************************************************************************)
(* The manifest file.  A file is described by the line kinds it repeats    *)
(* and its number of lines; FileTokens gives the whitespace-separated      *)
(* tokens an ifstream reads from it.                                       *)
(***************************************************************************)
RECURSIVE Rep(_, _)
Rep(s, n) == IF n = 0 THEN "" ELSE s \o Rep(s, n - 1)

LongName == Rep("long/", 52) \o ".jpg"

LineKinds ==
    << <<"cat/a.jpg", "3">>,      \* the spec's example lines
       <<"dog/b.jpg", "5">>,
       <<"ab", "-3">>,            \* a path shorter than the stripped extension
       <<"abcd", "12345">>,       \* a path of exactly four characters
       <<LongName, "7">>,         \* a path longer than the key buffer
       <<"bad.jpg", "x">>,        \* a label that is no integer
       <<"e.png", "12x">>,        \* an integer followed by other characters
       <<"lonely.jpg">>,          \* a path without a label
       <<"f.jpg", "2147483648">>, \* a label one above the largest int
       <<"g.jpg", "-2147483648">> >> \* the smallest int

FileLine(f, i) == LineKinds[f.pattern[((i - 1) % Len(f.pattern)) + 1]]

\* the tokens of lines lo..hi (halving keeps the evaluation shallow)
RECURSIVE TokensOf(_, _, _)
TokensOf(f, lo, hi) ==
    IF lo > hi THEN <<>>
    ELSE IF lo = hi THEN FileLine(f, lo)
    ELSE LET mid == (lo + hi) \div 2
         IN  TokensOf(f, lo, mid) \o TokensOf(f, mid + 1, hi)

FileTokens(f) == TokensOf(f, 1, f.n)

(***************************************************************************)
(* operator>> on the stream: a string token, then an int                   *)
(***************************************************************************)
IsDigit(c) == c \in {"0", "1", "2", "3", "4", "5", "6", "7", "8", "9"}

DigitVal(c) == CHOOSE d \in 0..9 : Digit(d) = c

Char(t, i) == SubSeq(t, i, i)

\* number of digits of t from position i on
RECURSIVE DigitRun(_, _)
DigitRun(t, i) ==
    IF i <= Len(t) /\ IsDigit(Char(t, i)) THEN 1 + DigitRun(t, i + 1) ELSE 0

HasSign(t) == Len(t) >= 1 /\ Char(t, 1) \in {"+", "-"}

IsNegative(t) == Len(t) >= 1 /\ Char(t, 1) = "-"

\* number of zeros of t from position i on
RECURSIVE ZeroRun(_, _)
ZeroRun(t, i) ==
    IF i <= Len(t) /\ Char(t, i) = "0" THEN 1 + ZeroRun(t, i + 1) ELSE 0

RECURSIVE DigitsVal(_, _, _)
DigitsVal(t, i, acc) ==
    IF i > Len(t) THEN acc ELSE DigitsVal(t, i + 1, 10 * acc + DigitVal(Char(t, i)))

\* the value of the digits of t from position i on, taken negative
RECURSIVE NegDigitsVal(_, _, _)
NegDigitsVal(t, i, acc) ==
    IF i > Len(t) THEN acc
    ELSE NegDigitsVal(t, i + 1, 10 * acc - DigitVal(Char(t, i)))

\* int label: the range of its values
kIntMax == 2147483647

kIntMin == (0 - kIntMax) - 1

\* whether the digits ds, under the sign neg, denote a value of an int
FitsInt(neg, ds) ==
    LET sig == SubSeq(ds, ZeroRun(ds, 1) + 1, Len(ds))
        n == Len(Dec(kIntMax))
    IN  \/ Len(sig) < n
        \/ /\ Len(sig) = n
           /\ LET hi == DigitsVal(SubSeq(sig, 1, n - 1), 1, 0)
                  lo == DigitVal(Char(sig, n))
              IN  \/ hi < kIntMax \div 10
                  \/ /\ hi = kIntMax \div 10
                     /\ lo <= (kIntMax % 10) + (IF neg THEN 1 ELSE 0)

\* length of the prefix of t that infile >> label reads as an int; 0 when
\* the extraction fails: no digit, or digits whose value is outside int
\* (num_get sets failbit)
IntPrefixLen(t) ==
    LET s == IF HasSign(t) THEN 1 ELSE 0
        d == DigitRun(t, s + 1)
    IN  IF d = 0 \/ ~FitsInt(IsNegative(t), SubSeq(t, s + 1, s + d)) THEN 0
        ELSE s + d

\* the value num_get stores for a sign and digits t: their value, or the
\* nearest end of the range of int when the value is outside it
IntVal(t) ==
    LET s == IF HasSign(t) THEN 1 ELSE 0
    IN  IF ~FitsInt(IsNegative(t), SubSeq(t, s + 1, Len(t)))
        THEN (IF IsNegative(t) THEN kIntMin ELSE kIntMax)
        ELSE IF IsNegative(t) THEN NegDigitsVal(t, 2, 0)
        ELSE DigitsVal(t, s + 1, 0)

ReadPairSkipsBad(toks, r) ==
    LET hasName == r.rest # "" \/ r.i <= Len(toks)
        j == IF r.rest # "" THEN r.i ELSE r.i + 1
    IN  IF r.eof \/ ~hasName \/ j > Len(toks) THEN [r EXCEPT !.eof = TRUE]
        ELSE LET filename == IF r.rest # "" THEN r.rest ELSE toks[r.i]
                 t == toks[j]
                 k == IntPrefixLen(t)
             IN  IF k = 0 THEN [r EXCEPT !.i = j + 1, !.rest = ""]
                 ELSE [i |-> j + 1, rest |-> SubSeq(t, k + 1, Len(t)), eof |-> FALSE,
                       acc |-> Append(r.acc, <<filename, IntVal(SubSeq(t, 1, k))>>)]

\* One evaluation of (infile >> filename >> label) and, when it succeeds,
\* the push_back of the loop body.  r.i is the next unread token of toks,
\* r.rest the unread tail of a token whose head was read as an int, r.eof
\* says that an extraction has failed and the loop has ended.
ReadPair(toks, r) ==
    LET hasName == r.rest # "" \/ r.i <= Len(toks)
        j == IF r.rest # "" THEN r.i ELSE r.i + 1
    IN  IF r.eof \/ ~hasName \/ j > Len(toks) THEN [r EXCEPT !.eof = TRUE]
        ELSE LET filename == IF r.rest # "" THEN r.rest ELSE toks[r.i]
                 t == toks[j]
                 k == IntPrefixLen(t)
             IN  IF k = 0 THEN [r EXCEPT !.eof = TRUE]
                 ELSE [i |-> j + 1, rest |-> SubSeq(t, k + 1, Len(t)), eof |-> FALSE,
                       acc |-> Append(r.acc, <<filename, IntVal(SubSeq(t, 1, k))>>)]

\* n iterations of the reading loop
RECURSIVE ReadPairs(_, _, _)
ReadPairs(toks, r, n) ==
    IF n = 0 \/ r.eof THEN r ELSE ReadPairs(toks, ReadPair(toks, r), n - 1)

\* the reading loop run to its end, ReadChunk iterations at a time (which
\* keeps the evaluation shallow)
ReadChunk == 64

RECURSIVE ReadAll(_, _)
ReadAll(toks, r) ==
    IF r.eof THEN r.acc ELSE ReadAll(toks, ReadPairs(toks, r, ReadChunk))

LoadLines(f) ==
    ReadAll(FileTokens(f), [i |-> 1, rest |-> "", eof |-> FALSE, acc |-> <<>>])

(***************************************************************************)
(* The database: the (key, value) pairs it holds, keys distinct, in the    *)
(* order the keys were first written.                                      *)
(***************************************************************************)
KeysOf(ops) == {ops[i][1] : i \in 1..Len(ops)}

\* index of the last operation of ops on key k
LastOn(ops, k) ==
    CHOOSE i \in 1..Len(ops) :
        ops[i][1] = k /\ \A j \in (i + 1)..Len(ops) : ops[j][1] # k

\* ops without the operations a later one on the same key overwrites
LastWrites(ops) ==
    IF Cardinality(KeysOf(ops)) = Len(ops) THEN ops
    ELSE LET idx == {LastOn(ops, k) : k \in KeysOf(ops)}
             nth(n) == CHOOSE i \in idx : Cardinality({j \in idx : j < i}) = n - 1
         IN  [n \in 1..Cardinality(idx) |-> ops[nth(n)]]

\* the database d after a batch or transaction of puts is applied atomically
Apply(d, ops) ==
    LET last == LastWrites(ops)
        K == KeysOf(ops)
        new(k) == last[CHOOSE i \in 1..Len(last) : last[i][1] = k]
    IN  IF KeysOf(d) \cap K = {} THEN d \o last
        ELSE [i \in 1..Len(d) |-> IF d[i][1] \in K THEN new(d[i][1]) ELSE d[i]]
             \o SelectSeq(last, LAMBDA r : r[1] \notin KeysOf(d))

(***************************************************************************)
(* Inputs                                                                  *)
(***************************************************************************)
Backends == {"leveldb", "lmdb", "rocksdb"}

SmallFiles ==
    {[pattern |-> p, n |-> Len(p)] :
        p \in UNION {[1..k -> 1..Len(LineKinds)] : k \in 0..MaxSmallLines}}

\* manifests of one batch less one line, one batch, one batch and Extra more
\* lines, and two batches, which repeat the spec's two example lines
BigFiles ==
    {[pattern |-> <<1, 2>>, n |-> n] :
        n \in {kBatchSize - 1, kBatchSize, kBatchSize + Extra, 2 * kBatchSize}}

InputFiles == SmallFiles \cup BigFiles

Orderings(n) == {p \in [1..n -> 1..n] : \A i, j \in 1..n : p[i] = p[j] => i = j}

Init ==
    /\ pc = "start"
    /\ argc \in {2, 3, 4}
    /\ listfile \in InputFiles
    /\ FLAGS_shuffle \in (IF listfile.n <= MaxSmallLines THEN BOOLEAN ELSE {FALSE})
    /\ db_backend \in Backends
    /\ dest0 \in {"absent", "dir", "db"}
    /\ dest = dest0
    /\ lines = <<>>
    /\ disk = <<>>
    /\ db = "null"
    /\ batch = <<>>
    /\ live_batches = 0
    /\ mdb_env = "none"
    /\ mdb_txn = <<>>
    /\ live_txns = 0
    /\ count = 0
    /\ line_id = 0
    /\ exit_code = "running"
    /\ puts = <<>>
    /\ ncommits = 0
    /\ nops = 0
    /\ failed = FALSE

(***************************************************************************)
(* main()                                                                  *)
(***************************************************************************)
Abort ==
    /\ pc' = "aborted"
    /\ exit_code' = "SIGABRT"

ParseArgsNoCheck ==
    /\ pc = "start"
    /\ pc' = "load"
    /\ UNCHANGED <<argc, FLAGS_shuffle, db_backend, listfile, lines, dest0, dest,
                   disk, db, batch, live_batches, mdb_env, mdb_txn, live_txns,
                   count, line_id, exit_code, puts, ncommits, nops, failed>>

\* ParseCommandLineFlags and the argument count check
ParseArgs ==
    /\ pc = "start"
    /\ IF argc # 3
       THEN pc' = "usage" /\ exit_code' = "1"
       ELSE pc' = "load" /\ UNCHANGED exit_code
    /\ UNCHANGED <<argc, FLAGS_shuffle, db_backend, listfile, lines, dest0, dest,
                   disk, db, batch, live_batches, mdb_env, mdb_txn, live_txns,
                   count, line_id, puts, ncommits, nops, failed>>

\* the reading loop
LoadManifest ==
    /\ pc = "load"
    /\ lines' = LoadLines(listfile)
    /\ pc' = "shuffle"
    /\ UNCHANGED <<argc, FLAGS_shuffle, db_backend, listfile, dest0, dest,
                   disk, db, batch, live_batches, mdb_env, mdb_txn, live_txns,
                   count, line_id, exit_code, puts, ncommits, nops, failed>>

PermutedRepeatsFirst(v, p) == [i \in 1..Len(v) |-> v[p[1]]]

Permuted(v, p) == [i \in 1..Len(v) |-> v[p[i]]]

\* shuffle(lines.begin(), lines.end()): any ordering may result
ShuffleLines ==
    /\ pc = "shuffle"
    /\ FLAGS_shuffle
    /\ \E p \in Orderings(Len(lines)) : lines' = Permuted(lines, p)
    /\ pc' = "open"
    /\ UNCHANGED <<argc, FLAGS_shuffle, db_backend, listfile, dest0, dest,
                   disk, db, batch, live_batches, mdb_env, mdb_txn, live_txns,
                   count, line_id, exit_code, puts, ncommits, nops, failed>>

NoShuffle ==
    /\ pc = "shuffle"
    /\ ~FLAGS_shuffle
    /\ pc' = "open"
    /\ UNCHANGED <<argc, FLAGS_shuffle, db_backend, listfile, lines, dest0, dest,
                   disk, db, batch, live_batches, mdb_env, mdb_txn, live_txns,
                   count, line_id, exit_code, puts, ncommits, nops, failed>>

\* leveldb::DB::Open with error_if_exists and create_if_missing: io is
\* whether the environment lets the call succeed
LevelDBOpens(d, io) == io /\ d # "db"

MkdirOkIfExists(d, io) == io

\* mkdir(db_path, 0744) returns 0
MkdirOk(d, io) == io /\ d = "absent"

OpenLevelDBNoBatch ==
    /\ pc = "open"
    /\ db_backend = "leveldb"
    /\ nops' = nops + 1
    /\ \E io \in BOOLEAN :
          IF LevelDBOpens(dest, io)
          THEN /\ db' = "open"
               /\ dest' = "db"
               /\ pc' = "loop"
               /\ UNCHANGED <<exit_code, failed>>
          ELSE /\ failed' = TRUE
               /\ Abort
               /\ UNCHANGED <<db, dest>>
    /\ UNCHANGED <<argc, FLAGS_shuffle, db_backend, listfile, lines, dest0,
                   disk, batch, live_batches, mdb_env, mdb_txn, live_txns, count,
                   line_id, puts, ncommits>>

OpenLevelDB ==
    /\ pc = "open"
    /\ db_backend = "leveldb"
    /\ nops' = nops + 1
    /\ \E io \in BOOLEAN :
          IF LevelDBOpens(dest, io)
          THEN /\ db' = "open"
               /\ dest' = "db"
               /\ batch' = <<>>
               /\ live_batches' = live_batches + 1
               /\ pc' = "loop"
               /\ UNCHANGED <<exit_code, failed>>
          ELSE /\ failed' = TRUE
               /\ Abort
               /\ UNCHANGED <<db, dest, batch, live_batches>>
    /\ UNCHANGED <<argc, FLAGS_shuffle, db_backend, listfile, lines, dest0,
                   disk, mdb_env, mdb_txn, live_txns, count, line_id, puts,
                   ncommits>>

\* The lmdb calls of the open step, in order.
LmdbOpenCalls ==
    <<"mkdir", "mdb_env_create", "mdb_env_set_mapsize", "mdb_env_open",
      "mdb_txn_begin", "mdb_open">>

\* mkdir .. mdb_open, each under a CHECK: bad is the first call that fails
\* (0: none does).  A failing mdb_env_open may already have written the
\* files of an empty database (it does when the map cannot be made): files.
OpenLmdb ==
    /\ pc = "open"
    /\ db_backend = "lmdb"
    /\ \E io \in 0..Len(LmdbOpenCalls), files \in BOOLEAN :
          LET bad == IF MkdirOk(dest, io # 1) THEN io ELSE 1
              passed(k) == bad = 0 \/ bad > k
          IN  /\ nops' = nops + (IF bad = 0 THEN Len(LmdbOpenCalls) ELSE bad)
              /\ dest' = IF passed(4) \/ (bad = 4 /\ files) THEN "db"
                         ELSE IF passed(1) THEN "dir" ELSE dest
              /\ mdb_env' = IF passed(4) THEN "open"
                            ELSE IF passed(2) THEN "created" ELSE mdb_env
              /\ live_txns' = IF passed(5) THEN live_txns + 1 ELSE live_txns
              /\ mdb_txn' = <<>>
              /\ IF bad = 0
                 THEN pc' = "loop" /\ UNCHANGED <<exit_code, failed>>
                 ELSE failed' = TRUE /\ Abort
    /\ UNCHANGED <<argc, FLAGS_shuffle, db_backend, listfile, lines, dest0,
                   disk, db, batch, live_batches, count, line_id, puts,
                   ncommits>>

UnknownBackendFallsThrough ==
    /\ pc = "open"
    /\ db_backend \notin {"leveldb", "lmdb"}
    /\ pc' = "loop"
    /\ UNCHANGED <<argc, FLAGS_shuffle, db_backend, listfile, lines, dest0, dest,
                   disk, db, batch, live_batches, mdb_env, mdb_txn, live_txns,
                   count, line_id, exit_code, puts, ncommits, nops, failed>>

\* LOG(FATAL) << "Unknown db backend"
UnknownBackend ==
    /\ pc = "open"
    /\ db_backend \notin {"leveldb", "lmdb"}
    /\ Abort
    /\ UNCHANGED <<argc, FLAGS_shuffle, db_backend, listfile, lines, dest0, dest,
                   disk, db, batch, live_batches, mdb_env, mdb_txn, live_txns,
                   count, line_id, puts, ncommits, nops, failed>>

RecordOfNextId(v, id) == <<MakeKey(id + 1, v[id + 1][1]), MakeVal(v[id + 1][2])>>

\* the record of the entry at position id of lines (positions from 0)
RecordOf(v, id) == <<MakeKey(id, v[id + 1][1]), MakeVal(v[id + 1][2])>>

CommitDueOneLate(c) == c % kBatchSize = 1

\* ++count % 1000 == 0, for the incremented count c
CommitDue(c) == c % kBatchSize = 0

FlushDueNever(c) == FALSE

FlushDueAlways(c) == TRUE

\* count % 1000 != 0 after the loop
FlushDue(c) == c % kBatchSize # 0

AfterPutSkipsOne(c) ==
    /\ count' = c
    /\ IF CommitDue(c)
       THEN pc' = "commit" /\ UNCHANGED line_id
       ELSE pc' = "loop" /\ line_id' = line_id + 2

\* after the commit check of an iteration: on to the commit, or ++line_id
AfterPut(c) ==
    /\ count' = c
    /\ IF CommitDue(c)
       THEN pc' = "commit" /\ UNCHANGED line_id
       ELSE pc' = "loop" /\ line_id' = line_id + 1

\* one iteration up to the commit check, leveldb: batch->Put cannot fail
PutLevelDB ==
    /\ pc = "loop"
    /\ line_id < Len(lines)
    /\ db_backend = "leveldb"
    /\ batch' = Append(batch, RecordOf(lines, line_id))
    /\ puts' = Append(puts, RecordOf(lines, line_id))
    /\ nops' = nops + 1
    /\ AfterPut(count + 1)
    /\ UNCHANGED <<argc, FLAGS_shuffle, db_backend, listfile, lines, dest0, dest,
                   disk, db, live_batches, mdb_env, mdb_txn, live_txns,
                   exit_code, ncommits, failed>>

\* one iteration up to the commit check, lmdb: CHECK_EQ(mdb_put(...), MDB_SUCCESS)
PutLmdb ==
    /\ pc = "loop"
    /\ line_id < Len(lines)
    /\ db_backend = "lmdb"
    /\ puts' = Append(puts, RecordOf(lines, line_id))
    /\ nops' = nops + 1
    /\ \E io \in BOOLEAN :
          IF io
          THEN /\ mdb_txn' = Append(mdb_txn, RecordOf(lines, line_id))
               /\ AfterPut(count + 1)
               /\ UNCHANGED <<exit_code, failed>>
          ELSE /\ failed' = TRUE
               /\ Abort
               /\ UNCHANGED <<mdb_txn, count, line_id>>
    /\ UNCHANGED <<argc, FLAGS_shuffle, db_backend, listfile, lines, dest0, dest,
                   disk, db, batch, live_batches, mdb_env, live_txns, ncommits>>

\* db->Write(WriteOptions(), batch), whose Status is dropped; delete batch;
\* batch = new WriteBatch()
CommitLevelDB ==
    /\ pc = "commit"
    /\ db_backend = "leveldb"
    /\ \E io \in BOOLEAN :
          /\ disk' = IF io THEN Apply(disk, batch) ELSE disk
          /\ failed' = (failed \/ ~io)
    /\ ncommits' = ncommits + 1
    /\ nops' = nops + 1
    /\ batch' = <<>>
    /\ live_batches' = (live_batches - 1) + 1
    /\ pc' = "loop"
    /\ line_id' = line_id + 1
    /\ UNCHANGED <<argc, FLAGS_shuffle, db_backend, listfile, lines, dest0, dest,
                   db, mdb_env, mdb_txn, live_txns, count, exit_code, puts>>

\* CHECK_EQ(mdb_txn_commit(mdb_txn), ..); CHECK_EQ(mdb_txn_begin(..), ..):
\* mdb_txn_commit ends the transaction whether it succeeds or not
CommitLmdb ==
    /\ pc = "commit"
    /\ db_backend = "lmdb"
    /\ ncommits' = ncommits + 1
    /\ \E io \in {"ok", "commit fails", "begin fails"} :
          /\ disk' = IF io = "commit fails" THEN disk ELSE Apply(disk, mdb_txn)
          /\ nops' = nops + (IF io = "commit fails" THEN 1 ELSE 2)
          /\ IF io = "ok"
             THEN /\ mdb_txn' = <<>>
                  /\ live_txns' = (live_txns - 1) + 1
                  /\ pc' = "loop"
                  /\ line_id' = line_id + 1
                  /\ UNCHANGED <<exit_code, failed>>
             ELSE /\ live_txns' = live_txns - 1
                  /\ failed' = TRUE
                  /\ Abort
                  /\ UNCHANGED <<mdb_txn, line_id>>
    /\ UNCHANGED <<argc, FLAGS_shuffle, db_backend, listfile, lines, dest0, dest,
                   db, batch, live_batches, mdb_env, count, puts>>

\* after the loop, leveldb: db->Write and delete batch when a partial batch
\* is left
FlushLevelDB ==
    /\ pc = "loop"
    /\ ~(line_id < Len(lines))
    /\ db_backend = "leveldb"
    /\ IF FlushDue(count)
       THEN /\ \E io \in BOOLEAN :
                  /\ disk' = IF io THEN Apply(disk, batch) ELSE disk
                  /\ failed' = (failed \/ ~io)
            /\ ncommits' = ncommits + 1
            /\ nops' = nops + 1
            /\ batch' = <<>>
            /\ live_batches' = live_batches - 1
       ELSE UNCHANGED <<disk, failed, ncommits, nops, batch, live_batches>>
    /\ pc' = "close"
    /\ UNCHANGED <<argc, FLAGS_shuffle, db_backend, listfile, lines, dest0, dest,
                   db, mdb_env, mdb_txn, live_txns, count, line_id, exit_code,
                   puts>>

\* after the loop, lmdb: CHECK_EQ(mdb_txn_commit(mdb_txn), ..) when a partial
\* batch is left
FlushLmdb ==
    /\ pc = "loop"
    /\ ~(line_id < Len(lines))
    /\ db_backend = "lmdb"
    /\ IF FlushDue(count)
       THEN /\ ncommits' = ncommits + 1
            /\ nops' = nops + 1
            /\ live_txns' = live_txns - 1
            /\ \E io \in BOOLEAN :
                  IF io
                  THEN /\ disk' = Apply(disk, mdb_txn)
                       /\ mdb_txn' = <<>>
                       /\ pc' = "close"
                       /\ UNCHANGED <<exit_code, failed>>
                  ELSE /\ failed' = TRUE
                       /\ Abort
                       /\ UNCHANGED <<disk, mdb_txn>>
       ELSE /\ pc' = "close"
            /\ UNCHANGED <<disk, failed, ncommits, nops, mdb_txn, live_txns,
                           exit_code>>
    /\ UNCHANGED <<argc, FLAGS_shuffle, db_backend, listfile, lines, dest0, dest,
                   db, batch, live_batches, mdb_env, count, line_id, puts>>

CloseLevelDBAndLmdb ==
    /\ pc = "close"
    /\ db_backend = "leveldb"
    /\ db' = "deleted"
    /\ mdb_env' = "closed"
    /\ nops' = nops + 3
    /\ pc' = "done"
    /\ exit_code' = "0"
    /\ UNCHANGED <<argc, FLAGS_shuffle, db_backend, listfile, lines, dest0, dest,
                   disk, batch, live_batches, mdb_txn, live_txns, count,
                   line_id, puts, ncommits, failed>>

\* delete db; return 0
CloseLevelDB ==
    /\ pc = "close"
    /\ db_backend = "leveldb"
    /\ db' = "deleted"
    /\ nops' = nops + 1
    /\ pc' = "done"
    /\ exit_code' = "0"
    /\ UNCHANGED <<argc, FLAGS_shuffle, db_backend, listfile, lines, dest0, dest,
                   disk, batch, live_batches, mdb_env, mdb_txn, live_txns, count,
                   line_id, puts, ncommits, failed>>

\* mdb_close; mdb_env_close; return 0
CloseLmdb ==
    /\ pc = "close"
    /\ db_backend = "lmdb"
    /\ mdb_env' = "closed"
    /\ nops' = nops + 2
    /\ pc' = "done"
    /\ exit_code' = "0"
    /\ UNCHANGED <<argc, FLAGS_shuffle, db_backend, listfile, lines, dest0, dest,
                   disk, db, batch, live_batches, mdb_txn, live_txns, count,
                   line_id, puts, ncommits, failed>>

\* The "Unknown db backend" branches of the loop, the flush and the close
\* are behind the one of the open step, which aborts first.
Next ==
    \/ ParseArgs
    \/ LoadManifest
    \/ ShuffleLines
    \/ NoShuffle
    \/ OpenLevelDB
    \/ OpenLmdb
    \/ UnknownBackend
    \/ PutLevelDB
    \/ PutLmdb
    \/ CommitLevelDB
    \/ CommitLmdb
    \/ FlushLevelDB
    \/ FlushLmdb
    \/ CloseLevelDB
    \/ CloseLmdb

Spec == Init /\ [][Next]_vars

\* the steps of main from the open step on (lines 98-195)
Convert == pc \in {"open", "loop", "commit", "close"} /\ Next

\* main is one thread that runs to its end: once the entries are loaded, a
\* statement that can run does
FairSpec == Spec /\ WF_vars(Convert)

(***************************************************************************)
(* Vocabulary of the properties                                            *)
(***************************************************************************)
Recognized == db_backend \in {"leveldb", "lmdb"}

\* the loop has ended and the final flush is over
PastFlush == pc \in {"close", "done"}

\* the open step is over
PastOpen == pc \in {"loop", "commit", "close", "done", "aborted"}

Terminated == pc \in {"done", "aborted", "usage"}

CeilDiv(a, b) == (a + b - 1) \div b

AllDigits(t) == \A i \in 1..Len(t) : IsDigit(Char(t, i))

\* the sequence number a key starts with; -1 when it starts with none
SeqNo(key) ==
    IF Len(key) >= kKeyDigits /\ AllDigits(SubSeq(key, 1, kKeyDigits))
    THEN IntVal(SubSeq(key, 1, kKeyDigits))
    ELSE -1

\* every line of the file is a well-formed (path, label) line
WellFormed(f) == \A i \in 1..Len(f.pattern) : f.pattern[i] \in 1..5

(***************************************************************************)
(* C1: when a run of a recognized backend reaches the close step with no   *)
(* backend failure, every entry of the manifest was staged by exactly one  *)
(* put (the puts are the records of entries 0..N-1, once each), all of     *)
(* them are in the database, and nothing staged is left in the write batch *)
(* or the transaction.                                                     *)
(***************************************************************************)
C1_AllCommitted ==
    (PastFlush /\ ~failed) =>
        /\ Len(puts) = Len(lines)
        /\ \A i \in 1..Len(lines) : puts[i] = RecordOf(lines, i - 1)
        /\ disk = puts
        /\ batch = <<>>
        /\ mdb_txn = <<>>

C1_Witness ==
    /\ pc = "done"
    /\ exit_code = "0"
    /\ ~failed
    /\ Len(lines) = kBatchSize + Extra
    /\ Len(disk) = Len(lines)

(***************************************************************************)
(* C2: a run over N > 0 entries that meets no backend failure has issued   *)
(* exactly ceil(N / 1000) commits when it ends.                            *)
(***************************************************************************)
C2_CommitCount ==
    (PastFlush /\ ~failed /\ Len(lines) > 0) =>
        ncommits = CeilDiv(Len(lines), kBatchSize)

C2_Witness ==
    /\ pc = "done"
    /\ ~failed
    /\ Len(lines) = kBatchSize + Extra
    /\ ncommits = 2

(***************************************************************************)
(* C3: without --shuffle, once the loop has ended there is one put per     *)
(* entry, the i-th put carries sequence number i (from 0) and is made from *)
(* the i-th entry, and the entries are in the order of the file's lines.   *)
(***************************************************************************)
C3_SequenceNumbers ==
    (~FLAGS_shuffle /\ PastFlush) =>
        /\ Len(puts) = Len(lines)
        /\ \A i \in 1..Len(puts) :
              /\ SeqNo(puts[i][1]) = i - 1
              /\ puts[i][1] = MakeKey(i - 1, lines[i][1])
              /\ puts[i][2] = MakeVal(lines[i][2])
        /\ WellFormed(listfile) =>
              /\ Len(lines) = listfile.n
              /\ \A i \in 1..Len(lines) :
                    /\ lines[i][1] = FileLine(listfile, i)[1]
                    /\ lines[i][2] = IntVal(FileLine(listfile, i)[2])

C3_Witness ==
    /\ pc = "done"
    /\ ~FLAGS_shuffle
    /\ listfile = [pattern |-> <<2, 1>>, n |-> 2]
    /\ Len(puts) = 2
    /\ SeqNo(puts[1][1]) = 0
    /\ SeqNo(puts[2][1]) = 1

(***************************************************************************)
(* C4: in every reachable state the record put last has a key that no      *)
(* earlier put has and a sequence number above that of the put before it,  *)
(* so the keys put so far are pairwise distinct and the sequence numbers   *)
(* strictly increasing (stated in full for the states where the loop has   *)
(* ended); also with repeated paths and with keys cut to 255 characters.   *)
(***************************************************************************)
C4_KeysDistinct ==
    LET n == Len(puts)
    IN  /\ \A i \in 1..(n - 1) : puts[i][1] # puts[n][1]
        /\ n >= 1 => SeqNo(puts[n][1]) >= 0
        /\ n >= 2 => SeqNo(puts[n - 1][1]) < SeqNo(puts[n][1])
        /\ PastFlush =>
              /\ Cardinality(KeysOf(puts)) = n
              /\ \A i \in 1..(n - 1) : SeqNo(puts[i][1]) < SeqNo(puts[i + 1][1])

C4_Witness ==
    /\ Len(puts) = 2
    /\ lines[1][1] = lines[2][1]
    /\ Len(puts[1][1]) = kMaxKeyLength - 1
    /\ Len(lines[1][1]) > kMaxKeyLength

(***************************************************************************)
(* C5 as claimed: the record put last, for the entry at position i with    *)
(* path p and label l, has key = i zero-padded to 8 digits, "_", p without *)
(* its last 4 characters, and (for l >= 0) value = l zero-padded to 4      *)
(* digits.  It fails for a path shorter than 4 characters and for a key    *)
(* longer than the key buffer.                                             *)
(***************************************************************************)
DropLast(p, k) == SubSeq(p, 1, Len(p) - k)

C5_AsClaimed ==
    LET n == Len(puts)
    IN  n >= 1 =>
            /\ puts[n][1] = ZeroPad(Dec(n - 1), 8) \o "_" \o DropLast(lines[n][1], 4)
            /\ lines[n][2] >= 0 => puts[n][2] = ZeroPad(Dec(lines[n][2]), 4)

(***************************************************************************)
(* C5 amended: the record put last, for the entry at position i with path  *)
(* p and label l, has as key the first 255 characters of: i zero-padded to *)
(* 8 digits, "_", and p without its last 4 characters when p has at least  *)
(* 4 characters, p itself when it is shorter; its value is l zero-padded   *)
(* to 4 digits, a negative l as "-" and its magnitude zero-padded to 3     *)
(* digits.  The unshuffled manifest ["cat/a.jpg 3", "dog/b.jpg 5"] yields  *)
(* "00000000_cat/a" -> "0003" and "00000001_dog/b" -> "0005".              *)
(***************************************************************************)
First(t, k) == IF Len(t) > k THEN SubSeq(t, 1, k) ELSE t

Stem(p) == IF Len(p) >= 4 THEN DropLast(p, 4) ELSE p

\* the digits of the magnitude of a negative l (that of the smallest int is
\* no int)
Magnitude(l) == IF l = kIntMin THEN "2147483648" ELSE Dec(0 - l)

C5_RecordFormat ==
    LET n == Len(puts)
    IN  /\ n >= 1 =>
            /\ puts[n][1] = First(ZeroPad(Dec(n - 1), 8) \o "_" \o Stem(lines[n][1]), 255)
            /\ puts[n][2] = IF lines[n][2] >= 0
                            THEN ZeroPad(Dec(lines[n][2]), 4)
                            ELSE "-" \o ZeroPad(Magnitude(lines[n][2]), 3)
        /\ (listfile = [pattern |-> <<1, 2>>, n |-> 2] /\ ~FLAGS_shuffle /\ PastFlush) =>
              puts = << <<"00000000_cat/a", "0003">>, <<"00000001_dog/b", "0005">> >>

C5_Witness ==
    /\ listfile = [pattern |-> <<1, 2>>, n |-> 2]
    /\ ~FLAGS_shuffle
    /\ pc = "done"
    /\ disk = << <<"00000000_cat/a", "0003">>, <<"00000001_dog/b", "0005">> >>

(***************************************************************************)
(* C6 as claimed: in every reachable state the database holds a prefix of  *)
(* the record sequence made of whole batches: records 0 .. 1000*k - 1 for  *)
(* some k, or all N records once the final flush is over.  It fails on the *)
(* leveldb path, where a failed batch write is passed over and a later     *)
(* batch is written.                                                       *)
(***************************************************************************)
C6_WholeBatchPrefix ==
    LET m == Len(disk)
    IN  /\ m <= Len(puts)
        /\ \A i \in 1..m : disk[i] = puts[i]
        /\ \/ m % kBatchSize = 0
           \/ PastFlush /\ m = Len(lines)

(***************************************************************************)
(* C7 as claimed: once a backend operation has failed the process is       *)
(* aborted: it does not go on and never exits with code 0.  It fails for   *)
(* db->Write of leveldb, whose Status is never looked at.                  *)
(***************************************************************************)
C7_FailureIsFatal == failed => (pc = "aborted" /\ exit_code = "SIGABRT")

(***************************************************************************)
(* C8 as claimed: a process that has ended after it acquired a backend     *)
(* resource (a leveldb handle, an lmdb environment) has released it in the *)
(* close step.  It fails on every abort after a partial or full open.      *)
(***************************************************************************)
C8_ClosedOnEveryExit ==
    (Terminated /\ (db # "null" \/ mdb_env # "none")) =>
        (db = "deleted" \/ mdb_env = "closed")

(***************************************************************************)
(* C9 as claimed: when the process has ended, no lmdb transaction it began *)
(* is still open and no leveldb WriteBatch it allocated is still alive.    *)
(* It fails on normal completion when N is a multiple of 1000 (0 too).     *)
(***************************************************************************)
C9_NothingLeftOpen == Terminated => (live_txns = 0 /\ live_batches = 0)

(***************************************************************************)
(* C10 as claimed: when the destination path exists at open, a leveldb run *)
(* aborts at the open and an lmdb run does not fail on the existing        *)
(* directory (it does not abort at mkdir, its first backend call).         *)
(***************************************************************************)
C10_AsClaimed ==
    (PastOpen /\ dest0 # "absent") =>
        /\ db_backend = "leveldb" => (pc = "aborted" /\ nops = 1)
        /\ db_backend = "lmdb" => ~(pc = "aborted" /\ nops = 1)

(***************************************************************************)
(* C10 amended: when the destination path exists at open, an lmdb run      *)
(* aborts at its first backend call, mkdir, as a leveldb run over an       *)
(* existing database aborts at DB::Open: neither writes a record nor       *)
(* changes the destination.                                                *)
(***************************************************************************)
C10_ExistingDestIsFatal ==
    (PastOpen /\ Recognized /\ (dest0 = "db" \/ (db_backend = "lmdb" /\ dest0 # "absent"))) =>
        /\ pc = "aborted"
        /\ nops = 1
        /\ puts = <<>>
        /\ disk = <<>>
        /\ dest = dest0
        /\ db = "null"
        /\ mdb_env = "none"

C10_Witness ==
    /\ pc = "aborted"
    /\ db_backend = "lmdb"
    /\ dest0 = "dir"
    /\ Len(lines) > 0
    /\ nops = 1

(***************************************************************************)
(* C11: with a --backend that is neither "leveldb" nor "lmdb" the process  *)
(* aborts at the open step: in no state of such a run has a put, a commit  *)
(* or any backend call happened, the destination is as it was found, no    *)
(* handle or environment exists, and the run never gets past the open.     *)
(***************************************************************************)
C11_UnknownBackendFatal ==
    ~Recognized =>
        /\ pc \in {"start", "usage", "load", "shuffle", "open", "aborted"}
        /\ pc = "aborted" => exit_code = "SIGABRT"
        /\ puts = <<>>
        /\ ncommits = 0
        /\ nops = 0
        /\ count = 0
        /\ dest = dest0
        /\ disk = <<>>
        /\ db = "null"
        /\ mdb_env = "none"
        /\ live_batches = 0
        /\ live_txns = 0

C11_Witness ==
    /\ ~Recognized
    /\ pc = "aborted"
    /\ Len(lines) = 2
    /\ dest0 = "absent"
    /\ dest = "absent"

(***************************************************************************)
(* C12: in every reachable state at most one lmdb transaction or leveldb   *)
(* write batch is alive, and only the selected backend has been touched: a *)
(* leveldb run has no lmdb environment or transaction, an lmdb run has no  *)
(* leveldb handle or write batch.                                          *)
(***************************************************************************)
C12_OneTransaction ==
    /\ live_txns \in {0, 1}
    /\ live_batches \in {0, 1}
    /\ live_txns + live_batches <= 1
    /\ db_backend = "leveldb" => (live_txns = 0 /\ mdb_env = "none" /\ mdb_txn = <<>>)
    /\ db_backend = "lmdb" => (live_batches = 0 /\ db = "null" /\ batch = <<>>)

\* an lmdb run after its first in-loop commit, with the next entry to put
C12_Witness ==
    /\ db_backend = "lmdb"
    /\ pc = "loop"
    /\ ncommits = 1
    /\ line_id < Len(lines)
    /\ live_txns = 1
    /\ mdb_txn = <<>>

(***************************************************************************)
(* C13: for an empty manifest no commit is issued on either backend; the   *)
(* leveldb run makes no put and no write (its only backend calls are the   *)
(* open and the close), and the lmdb run has begun exactly one             *)
(* transaction, at open: one is alive and none has been committed.         *)
(***************************************************************************)
C13_EmptyManifest ==
    (pc \in {"loop", "close", "done"} /\ Len(lines) = 0) =>
        /\ ncommits = 0
        /\ puts = <<>>
        /\ disk = <<>>
        /\ db_backend = "leveldb" =>
              /\ batch = <<>>
              /\ nops = (IF pc = "done" THEN 2 ELSE 1)
        /\ db_backend = "lmdb" =>
              /\ live_txns = 1
              /\ mdb_txn = <<>>
              /\ nops = Len(LmdbOpenCalls) + (IF pc = "done" THEN 2 ELSE 0)

C13_Witness ==
    /\ pc = "done"
    /\ db_backend = "lmdb"
    /\ listfile.n = 0
    /\ live_txns = 1
    /\ ncommits = 0

(***************************************************************************)
(* C14: with --shuffle, no backend call and no put happens before the      *)
(* shuffle is over; from the open step on, lines is a rearrangement of the *)
(* loaded entries (each entry as often as it was loaded), and the i-th put *)
(* carries sequence number i and is made from the i-th entry of the        *)
(* shuffled order, one put per entry once the loop has ended.              *)
(***************************************************************************)
Occurrences(v, e) == Cardinality({i \in 1..Len(v) : v[i] = e})

SameMultiset(v, w) ==
    /\ Len(v) = Len(w)
    /\ \A i \in 1..Len(v) : Occurrences(v, v[i]) = Occurrences(w, v[i])

C14_ShuffleIsPermutation ==
    FLAGS_shuffle =>
        /\ pc \in {"start", "load", "shuffle"} => (nops = 0 /\ puts = <<>>)
        /\ pc \in {"open", "loop", "commit", "close", "done", "aborted"} =>
              SameMultiset(lines, LoadLines(listfile))
        /\ Len(puts) <= Len(lines)
        /\ \A i \in 1..Len(puts) :
              /\ SeqNo(puts[i][1]) = i - 1
              /\ puts[i] = <<MakeKey(i - 1, lines[i][1]), MakeVal(lines[i][2])>>
        /\ PastFlush => Len(puts) = Len(lines)

\* a shuffled run that ends with its two entries put in the other order
C14_Witness ==
    /\ FLAGS_shuffle
    /\ pc = "done"
    /\ listfile = [pattern |-> <<1, 2>>, n |-> 2]
    /\ puts = << <<"00000000_dog/b", "0005">>, <<"00000001_cat/a", "0003">> >>

(***************************************************************************)
(* C15: when argc is not 3 the process exits with code 1 from the argument *)
(* check and nothing else has changed: no entry is loaded, no backend call *)
(* is made, the destination is as it was found and no record is put or     *)
(* written.                                                                *)
(***************************************************************************)
C15_UsageExit ==
    argc # 3 =>
        /\ pc \in {"start", "usage"}
        /\ pc = "usage" => exit_code = "1"
        /\ pc = "start" => exit_code = "running"
        /\ lines = <<>>
        /\ nops = 0
        /\ ncommits = 0
        /\ puts = <<>>
        /\ dest = dest0
        /\ disk = <<>>
        /\ db = "null"
        /\ mdb_env = "none"
        /\ live_batches = 0
        /\ live_txns = 0
        /\ count = 0
        /\ line_id = 0
        /\ ~failed

C15_Witness ==
    /\ argc = 4
    /\ pc = "usage"
    /\ exit_code = "1"
    /\ listfile.n = 2
    /\ Recognized

(***************************************************************************)
(* C16: whenever the loop is about to run an iteration, and so a put, the  *)
(* selected backend is open and holds exactly one live write batch         *)
(* (leveldb) or transaction (lmdb); this is so at the first iteration and  *)
(* after every in-loop commit.                                             *)
(***************************************************************************)
C16_PutIntoOpenTransaction ==
    (pc = "loop" /\ line_id < Len(lines)) =>
        /\ db_backend = "leveldb" => (db = "open" /\ live_batches = 1)
        /\ db_backend = "lmdb" => (mdb_env = "open" /\ live_txns = 1)
        /\ Len(puts) = line_id

\* a leveldb run after its first in-loop commit, with one more entry to put
C16_Witness ==
    /\ db_backend = "leveldb"
    /\ pc = "loop"
    /\ ncommits = 1
    /\ line_id = kBatchSize
    /\ line_id < Len(lines)
    /\ live_batches = 1
    /\ batch = <<>>

(***************************************************************************)
(* C17: staged is what the current batch or transaction holds.  Between    *)
(* iterations staged = count mod 1000 (so at most 999), at the commit      *)
(* check that fires staged = 1000 with count a positive multiple of 1000,  *)
(* staged never exceeds 1000, and the commits issued while the loop runs   *)
(* are one per multiple of 1000 that count has reached.                    *)
(***************************************************************************)
Staged == IF db_backend = "leveldb" THEN Len(batch) ELSE Len(mdb_txn)

C17_BoundedBatches ==
    /\ Staged <= kBatchSize
    /\ pc = "loop" =>
          /\ Staged = count % kBatchSize
          /\ Staged <= kBatchSize - 1
          /\ ncommits = count \div kBatchSize
          /\ line_id = count
    /\ pc = "commit" =>
          /\ Staged = kBatchSize
          /\ count > 0
          /\ count % kBatchSize = 0
          /\ ncommits = (count \div kBatchSize) - 1

C17_Witness ==
    /\ pc = "commit"
    /\ Staged = kBatchSize
    /\ count = kBatchSize

(***************************************************************************)
(* C18 as claimed: right after loading, lines is the longest prefix of the *)
(* pairs (token 2k-1, token 2k) of the file's token stream whose second    *)
(* token is an integer.  It fails for a label token such as "12x", which   *)
(* is no integer and yet is loaded as 12.                                  *)
(***************************************************************************)
IsInt(t) == Len(t) > 0 /\ IntPrefixLen(t) = Len(t)

GoodPair(toks, k) == 2 * k <= Len(toks) /\ IsInt(toks[2 * k])

\* number of leading pairs of toks that are well formed
GoodPairs(toks) ==
    CHOOSE k \in 0..(Len(toks) \div 2) :
        /\ ~GoodPair(toks, k + 1)
        /\ \A j \in 1..k : GoodPair(toks, j)

PairsPrefix(toks) ==
    [k \in 1..GoodPairs(toks) |-> <<toks[2 * k - 1], IntVal(toks[2 * k])>>]

C18_AsClaimed ==
    pc = "shuffle" => lines = PairsPrefix(FileTokens(listfile))

(***************************************************************************)
(* C18 amended: the loader yields, in file order, the pairs read up to the *)
(* first extraction that fails, and no entry after that point is loaded or *)
(* written.  A label is read as the longest integer prefix of its token:   *)
(* when the token goes on with other characters, the pair is loaded with   *)
(* that integer and the rest of the token is read as the next path; when   *)
(* the integer is outside the range of int, the extraction fails.  So      *)
(* lines is the longest prefix of well-formed pairs of the token stream in *)
(* which every such label token has been split in two, a label being well  *)
(* formed when it is an integer in the range of int.                       *)
(***************************************************************************)
\* toks with each token that stands where a label is read, begins with an
\* integer and goes on, split into the integer and the rest
RECURSIVE SplitLabels(_, _, _)
SplitLabels(toks, i, out) ==
    IF i > Len(toks) THEN out
    ELSE IF Len(out) % 2 = 0 THEN SplitLabels(toks, i + 1, Append(out, toks[i]))
    ELSE LET t == toks[i]
             k == IntPrefixLen(t)
         IN  IF 0 < k /\ k < Len(t)
             THEN SplitLabels(toks, i + 1,
                              out \o <<SubSeq(t, 1, k), SubSeq(t, k + 1, Len(t))>>)
             ELSE SplitLabels(toks, i + 1, Append(out, t))

\* no token begins with an integer and goes on: there is nothing to split
NothingToSplit(toks) ==
    \A i \in 1..Len(toks) : IntPrefixLen(toks[i]) \in {0, Len(toks[i])}

AsRead(toks) == IF NothingToSplit(toks) THEN toks ELSE SplitLabels(toks, 1, <<>>)

C18_LoaderPrefix ==
    /\ pc = "shuffle" => lines = PairsPrefix(AsRead(FileTokens(listfile)))
    /\ Len(puts) <= Len(lines)
    /\ PastFlush => Len(puts) = Len(lines)

\* a first line whose label is outside int: the well-formed line after it
\* is not loaded
C18_Witness ==
    /\ pc = "done"
    /\ listfile = [pattern |-> <<9, 1>>, n |-> 2]
    /\ lines = <<>>
    /\ puts = <<>>

(***************************************************************************)
(* C19: a path shorter than 4 characters does not end the run (only a      *)
(* backend failure or an unknown backend aborts it) and goes into the key  *)
(* whole: "<8-digit index>_<path>"; a path of exactly 4 characters leaves  *)
(* the key "<8-digit index>_".                                             *)
(***************************************************************************)
C19_ShortPaths ==
    LET n == Len(puts)
    IN  /\ pc = "aborted" => (failed \/ ~Recognized)
        /\ n >= 1 =>
              LET p == lines[n][1]
                  index == ZeroPad(Dec(n - 1), 8)
              IN  /\ Len(p) < 4 => puts[n][1] = index \o "_" \o p
                  /\ Len(p) = 4 => puts[n][1] = index \o "_"

C19_Witness ==
    /\ pc = "done"
    /\ lines = << <<"ab", -3>>, <<"abcd", 12345>> >>
    /\ puts = << <<"00000000_ab", "-003">>, <<"00000001_", "12345">> >>

(***************************************************************************)
(* C20: with a recognized backend, a run that has reached the open step    *)
(* either meets a failing backend operation or ends with exit code 0 after *)
(* exactly N puts, N the number of loaded entries; open, the write loop    *)
(* (its commits included), the final commit and close come in that order   *)
(* and none is entered again: the final commit is the one step from the    *)
(* loop to close, and nothing is committed or put after it.                *)
(***************************************************************************)
PhaseRank(p) ==
    CASE p \in {"start", "load", "shuffle"} -> 0
      [] p = "open"                         -> 1
      [] p \in {"loop", "commit"}           -> 2
      [] p = "close"                        -> 3
      [] OTHER                              -> 4

EndsWell == pc = "done" /\ exit_code = "0" /\ Len(puts) = Len(lines)

InPhaseOrder ==
    /\ PhaseRank(pc') >= PhaseRank(pc)
    /\ pc' = "open" => pc # "open"
    /\ pc' = "close" => pc = "loop" /\ line_id = Len(lines)
    /\ pc' = "done" => pc = "close"
    /\ PhaseRank(pc) >= 3 => puts' = puts /\ ncommits' = ncommits
    /\ pc = "loop" /\ pc' = "close" =>
          ncommits' = ncommits + (IF FlushDue(count) THEN 1 ELSE 0)

C20_Terminates ==
    /\ (pc = "open" /\ Recognized) ~> (failed \/ EndsWell)
    /\ [][InPhaseOrder]_vars

\* a run through both an in-loop commit and the final commit
C20_Witness ==
    /\ EndsWell
    /\ ~failed
    /\ Len(lines) = kBatchSize + Extra
    /\ ncommits = 2

====
